---------------------------- MODULE Spec2Model ----------------------------
(***************************************************************************)
(* custom::priority_queue, an array-backed binary heap, in its two         *)
(* variants: the working header (src/unnamed/part_000) and the header      *)
(* whose push and pop are stubbed out (src/priority_queue.h).              *)
(*                                                                         *)
(* A container is a sequence; heap index i (1-based) is storage offset     *)
(* i-1, which is position i of the sequence.                               *)
(***************************************************************************)
EXTENDS Integers, Sequences, FiniteSets, TLC

VARIABLES variant, constructed, container, compare, ret, nPush, nPop, ub,
          log, bag, heapified,
          input, p, r, h, outP, outR, pc,
          lhs, rhs, lhs0, rhs0, nSwap,
          buf, cur, last, nHeapify

vars == <<variant, constructed, container, compare, ret, nPush, nPop, ub,
          log, bag, heapified,
          input, p, r, h, outP, outR, pc,
          lhs, rhs, lhs0, rhs0, nSwap,
          buf, cur, last, nHeapify>>

queueVars  == <<variant, constructed, container, compare, ret, nPush, nPop, ub,
                log, bag, heapified>>
driverVars == <<input, p, r, h, outP, outR, pc>>
swapVars   == <<lhs, rhs, lhs0, rhs0, nSwap>>
bufferVars == <<buf, cur, last, nHeapify>>

(***************************************************************************)
(* Bounds of the model.                                                    *)
(***************************************************************************)
MaxVal  == 3     \* elements are 1..MaxVal
MaxSize == 4     \* longest container
MaxOps  == 3     \* most push calls in one behaviour
MaxLen  == 4     \* longest input sequence of the driver
MaxSwapLen == 2  \* longest sequence the swapped queues are built from
MaxSwaps   == 2  \* most swap calls in one behaviour
MaxHeapify == 2  \* most heapify calls on one buffer

Values   == 1 .. MaxVal
Variants == {"working", "named"}
Compares == {"less", "greater"}

RECURSIVE SeqsUpTo(_, _)
SeqsUpTo(S, n) ==
    IF n = 0 THEN {<<>>}
    ELSE LET shorter == SeqsUpTo(S, n - 1)
         IN  shorter \cup {Append(s, x) : s \in {t \in shorter : Len(t) = n - 1}, x \in S}

(***************************************************************************)
(* The comparator object, called: std::less is a < b; the "greater" value  *)
(* stands for a caller-supplied comparator that orders the other way.      *)
(***************************************************************************)
Compare(cmp, a, b) == IF cmp = "less" THEN a < b ELSE a > b

size(c)  == Len(c)
empty(c) == size(c) = 0

\* std::swap of two elements of the container, by heap index
swapAt(c, i, j) == [c EXCEPT ![i] = c[j], ![j] = c[i]]

(***************************************************************************)
(* Working variant: percolateDown.  The result is the container after the  *)
(* call and the value returned, with a record of what the call did: trace  *)
(* has one entry for the call and each recursive call (the container it    *)
(* saw, its indexHeap, the indexBigger it chose, whether it swapped), acc  *)
(* the indexed accesses made, each an offset with size() at the time.      *)
(***************************************************************************)
Access(offsets, n) == {[off |-> o, size |-> n] : o \in offsets}

RECURSIVE percolateDown(_, _, _)

\* percolateDown that tests the left child's index where it should test the
\* right one's, and so reads the right child one past the end
percolateDown_guardLeft(c, cmp, indexHeap) ==
    LET indexLeft   == 2 * indexHeap
        indexRight  == indexLeft + 1
        indexBigger == IF indexRight <= size(c) /\ Compare(cmp, c[indexLeft], c[indexRight])
                       THEN indexRight
                       ELSE indexLeft
        swaps       == indexBigger <= size(c) /\ Compare(cmp, c[indexHeap], c[indexBigger])
        entry       == [c |-> c, indexHeap |-> indexHeap, indexBigger |-> indexBigger,
                        swapped |-> swaps]
        acc         == Access(IF indexLeft <= size(c)
                              THEN {indexLeft - 1, indexRight - 1} ELSE {}, size(c))
                       \cup Access(IF indexBigger <= size(c)
                                   THEN {indexHeap - 1, indexBigger - 1} ELSE {}, size(c))
    IN  IF swaps
        THEN LET d == percolateDown(swapAt(c, indexHeap, indexBigger), cmp, indexBigger)
             IN  [container |-> d.container, ret |-> TRUE,
                  trace |-> <<entry>> \o d.trace, acc |-> acc \cup d.acc]
        ELSE [container |-> c, ret |-> FALSE, trace |-> <<entry>>, acc |-> acc]

\* percolateDown that never looks at the right child
percolateDown_alwaysLeft(c, cmp, indexHeap) ==
    LET indexLeft   == 2 * indexHeap
        indexBigger == indexLeft
        swaps       == indexBigger <= size(c) /\ Compare(cmp, c[indexHeap], c[indexBigger])
        entry       == [c |-> c, indexHeap |-> indexHeap, indexBigger |-> indexBigger,
                        swapped |-> swaps]
        acc         == Access(IF indexBigger <= size(c)
                              THEN {indexHeap - 1, indexBigger - 1} ELSE {}, size(c))
    IN  IF swaps
        THEN LET d == percolateDown(swapAt(c, indexHeap, indexBigger), cmp, indexBigger)
             IN  [container |-> d.container, ret |-> TRUE,
                  trace |-> <<entry>> \o d.trace, acc |-> acc \cup d.acc]
        ELSE [container |-> c, ret |-> FALSE, trace |-> <<entry>>, acc |-> acc]

\* percolateDown that swaps once and does not go on from the child
percolateDown_noRecursion(c, cmp, indexHeap) ==
    LET indexLeft   == 2 * indexHeap
        indexRight  == indexLeft + 1
        indexBigger == IF indexRight <= size(c) /\ Compare(cmp, c[indexLeft], c[indexRight])
                       THEN indexRight
                       ELSE indexLeft
        swaps       == indexBigger <= size(c) /\ Compare(cmp, c[indexHeap], c[indexBigger])
        entry       == [c |-> c, indexHeap |-> indexHeap, indexBigger |-> indexBigger,
                        swapped |-> swaps]
        acc         == Access(IF indexRight <= size(c)
                              THEN {indexLeft - 1, indexRight - 1} ELSE {}, size(c))
                       \cup Access(IF indexBigger <= size(c)
                                   THEN {indexHeap - 1, indexBigger - 1} ELSE {}, size(c))
    IN  IF swaps
        THEN [container |-> swapAt(c, indexHeap, indexBigger), ret |-> TRUE,
              trace |-> <<entry>>, acc |-> acc]
        ELSE [container |-> c, ret |-> FALSE, trace |-> <<entry>>, acc |-> acc]

percolateDown(c, cmp, indexHeap) ==
    LET indexLeft   == 2 * indexHeap
        indexRight  == indexLeft + 1
        indexBigger == IF indexRight <= size(c) /\ Compare(cmp, c[indexLeft], c[indexRight])
                       THEN indexRight
                       ELSE indexLeft
        swaps       == indexBigger <= size(c) /\ Compare(cmp, c[indexHeap], c[indexBigger])
        entry       == [c |-> c, indexHeap |-> indexHeap, indexBigger |-> indexBigger,
                        swapped |-> swaps]
        acc         == Access(IF indexRight <= size(c)
                              THEN {indexLeft - 1, indexRight - 1} ELSE {}, size(c))
                       \cup Access(IF indexBigger <= size(c)
                                   THEN {indexHeap - 1, indexBigger - 1} ELSE {}, size(c))
    IN  IF swaps
        THEN LET d == percolateDown(swapAt(c, indexHeap, indexBigger), cmp, indexBigger)
             IN  [container |-> d.container, ret |-> TRUE,
                  trace |-> <<entry>> \o d.trace, acc |-> acc \cup d.acc]
        ELSE [container |-> c, ret |-> FALSE, trace |-> <<entry>>, acc |-> acc]

\* the loop of push: while (i > 0 && percolateDown(i)) i /= 2;
\* runs holds the trace of each percolateDown call the loop makes, in order
RECURSIVE pushLoop(_, _, _)
pushLoop(c, cmp, i) ==
    IF i > 0
    THEN LET d == percolateDown(c, cmp, i)
         IN  IF d.ret
             THEN LET e == pushLoop(d.container, cmp, i \div 2)
                  IN  [container |-> e.container, runs |-> <<d.trace>> \o e.runs,
                       acc |-> d.acc \cup e.acc]
             ELSE [container |-> d.container, runs |-> <<d.trace>>, acc |-> d.acc]
    ELSE [container |-> c, runs |-> <<>>, acc |-> {}]

\* push, with the record of its percolateDown calls
pushRun(c, cmp, t) ==
    LET c1 == Append(c, t)
        i  == (size(c1) + 1) \div 2
    IN  pushLoop(c1, cmp, i)

\* push without its push_back
push_noAppend(c, cmp, t) == pushLoop(c, cmp, (size(c) + 1) \div 2).container

push(c, cmp, t) == pushRun(c, cmp, t).container

\* pop without its percolateDown(1)
pop_noPercolate(c, cmp) ==
    [container |-> IF c = <<>> THEN c ELSE SubSeq(swapAt(c, 1, size(c)), 1, Len(c) - 1),
     ub        |-> IF c = <<>> THEN {"pop_back_empty"} ELSE {},
     runs      |-> <<>>,
     acc       |-> IF c = <<>> THEN {} ELSE Access({0, size(c) - 1}, size(c))]

\* pop without its swap: the last element is removed, not the front one
pop_noSwap(c, cmp) ==
    LET c2 == IF c = <<>> THEN c ELSE SubSeq(c, 1, Len(c) - 1)
        d  == percolateDown(c2, cmp, 1)
    IN  [container |-> d.container,
         ub        |-> IF c = <<>> THEN {"pop_back_empty"} ELSE {},
         runs      |-> <<d.trace>>,
         acc       |-> d.acc]

\* pop: the swap is guarded by !empty(); pop_back and percolateDown(1) are not.
\* pop_back on an empty container is undefined: ub records that it was called,
\* and the container is given as it is when the call leaves it empty.
pop(c, cmp) ==
    LET c1 == IF ~empty(c) THEN swapAt(c, 1, size(c)) ELSE c
        c2 == IF c1 = <<>> THEN c1 ELSE SubSeq(c1, 1, Len(c1) - 1)
        d  == percolateDown(c2, cmp, 1)
    IN  [container |-> d.container,
         ub        |-> IF c1 = <<>> THEN {"pop_back_empty"} ELSE {},
         runs      |-> <<d.trace>>,
         acc       |-> (IF ~empty(c) THEN Access({0, size(c) - 1}, size(c)) ELSE {})
                       \cup d.acc]

\* top without its test for the empty container
top_unchecked(c) == [err |-> "none", val |-> IF c = <<>> THEN 0 ELSE c[1]]

\* top: the front element, or the out_of_range exception
top(c) ==
    IF ~empty(c) THEN [err |-> "none", val |-> c[1]]
    ELSE [err |-> "out_of_range", val |-> 0]

\* the loop of heapify: for (int i = size/2; i >= 0; i--) percolateDown(i + 1);
\* runs holds the trace of each percolateDown call the loop makes, in order
RECURSIVE heapifyLoop(_, _, _)

\* the loop of heapify ending at i > 0: the root is never percolated
heapifyLoop_skipsRoot(c, cmp, i) ==
    IF i > 0
    THEN LET d == percolateDown(c, cmp, i + 1)
             e == heapifyLoop(d.container, cmp, i - 1)
         IN  [container |-> e.container, runs |-> <<d.trace>> \o e.runs,
              acc |-> d.acc \cup e.acc]
    ELSE [container |-> c, runs |-> <<>>, acc |-> {}]

heapifyLoop(c, cmp, i) ==
    IF i >= 0
    THEN LET d == percolateDown(c, cmp, i + 1)
             e == heapifyLoop(d.container, cmp, i - 1)
         IN  [container |-> e.container, runs |-> <<d.trace>> \o e.runs,
              acc |-> d.acc \cup e.acc]
    ELSE [container |-> c, runs |-> <<>>, acc |-> {}]

\* heapify, with the record of its percolateDown calls
heapifyRun(c, cmp) == heapifyLoop(c, cmp, size(c) \div 2)

\* heapify that percolates the root alone
heapify_rootOnly(c, cmp) == percolateDown(c, cmp, 1).container

heapify(c, cmp) == heapifyRun(c, cmp).container

\* the loop of the range constructor: for (it = first; it != last; ++it) push(*it);
RECURSIVE pushAll(_, _, _)
pushAll(c, cmp, s) ==
    IF s = <<>> THEN c
    ELSE pushAll(push(c, cmp, Head(s)), cmp, Tail(s))

\* priority_queue(Iterator first, Iterator last, const Compare& c): reserve,
\* push every element, then heapify
constructRange(s, cmp) == heapify(pushAll(<<>>, cmp, s), cmp)


(***************************************************************************)
(* Named variant (priority_queue.h).  percolateDown compares with < and    *)
(* not with the comparator.  heapify calls it with heap index 0, whose     *)
(* offset indexHeap - 1 wraps round to the slot before the buffer: g is    *)
(* the value that slot happens to hold.  The result carries the undefined  *)
(* accesses made.                                                          *)
(***************************************************************************)
\* the element at heap index k, or what lies before the buffer
at_h(c, k, g) == IF k \in 1 .. Len(c) THEN c[k] ELSE g

\* std::swap of the elements at heap indices i and j; a slot outside the
\* buffer is written outside the container
swapAt_h(c, i, j, g) ==
    [k \in 1 .. Len(c) |-> IF k = i THEN at_h(c, j, g)
                            ELSE IF k = j THEN at_h(c, i, g)
                            ELSE c[k]]

RECURSIVE percolateDown_h(_, _, _)
percolateDown_h(c, indexHeap, g) ==
    LET indexLeft   == indexHeap * 2
        indexRight  == indexLeft + 1
        indexBigger == IF indexRight <= size(c) /\ at_h(c, indexLeft, g) < at_h(c, indexRight, g)
                       THEN indexRight
                       ELSE indexLeft
        outside     == indexHeap < 1
    IN  IF indexRight <= size(c) /\ indexLeft <= size(c)
        THEN IF at_h(c, indexHeap, g) < at_h(c, indexBigger, g)
             THEN LET d == percolateDown_h(swapAt_h(c, indexHeap, indexBigger, g), indexBigger, g)
                  IN  [container |-> d.container, ret |-> TRUE,
                       ub |-> d.ub \cup (IF outside THEN {"oob_read", "oob_write"} ELSE {})]
             ELSE [container |-> c, ret |-> FALSE,
                   ub |-> IF outside THEN {"oob_read"} ELSE {}]
        ELSE [container |-> c, ret |-> FALSE, ub |-> {}]

\* the loop of push: while (i && percolateDown(i)) i /= 2;
RECURSIVE pushLoop_h(_, _)
pushLoop_h(c, i) ==
    IF i # 0
    THEN LET d == percolateDown_h(c, i, 0)
         IN  IF d.ret THEN pushLoop_h(d.container, i \div 2) ELSE d.container
    ELSE c

\* push, both overloads: push_back is commented out
push_h(c, t) ==
    LET i == size(c) \div 2
    IN  pushLoop_h(c, i)

\* pop: the whole body is commented out
pop_h(c) == c

top_h(c) ==
    IF ~empty(c) THEN [err |-> "none", val |-> c[1]]
    ELSE [err |-> "out_of_range", val |-> 0]

\* the loop of heapify: for (int i = size/2; i >= 0; i--) percolateDown(i);
\* calls holds the heap index of each percolateDown call the loop makes
RECURSIVE heapifyLoop_h(_, _, _)
heapifyLoop_h(c, i, g) ==
    IF i >= 0
    THEN LET d == percolateDown_h(c, i, g)
             e == heapifyLoop_h(d.container, i - 1, g)
         IN  [container |-> e.container, ub |-> d.ub \cup e.ub, calls |-> <<i>> \o e.calls]
    ELSE [container |-> c, ub |-> {}, calls |-> <<>>]

heapify_h(c, g) == heapifyLoop_h(c, size(c) \div 2, g)

(***************************************************************************)
(* One queue under a caller: which header is compiled is fixed at the      *)
(* start; the queue is constructed, then pushed to, popped and peeked.     *)
(* ret is the outcome of the last call, nPush and nPop count the calls,    *)
(* ub collects the undefined operations the calls have made.  log is the   *)
(* record of the last call of the working variant: its percolateDown       *)
(* calls and its indexed accesses.  bag is the multiset a caller of the    *)
(* working variant expects the queue to hold: what was adopted or pushed,  *)
(* less the front element at each pop.  heapified tells that heapify has   *)
(* been called on the queue after its construction.                        *)
(***************************************************************************)
Garbage == 0 .. MaxVal       \* what the slot before the buffer may hold

NoRet == [op |-> "none", err |-> "none", val |-> 0]

NoLog == [runs |-> <<>>, acc |-> {}]

Occurrences(s, v) == Cardinality({k \in 1 .. Len(s) : s[k] = v})

\* the multiset of the elements of s, as the count of each value
BagOf(s) == [v \in Values |-> Occurrences(s, v)]

DriverIdle ==
    /\ input = <<>> /\ p = <<>> /\ r = <<>> /\ h = <<>>
    /\ outP = <<>> /\ outR = <<>> /\ pc = "idle"

SwapIdle ==
    /\ lhs = [container |-> <<>>, compare |-> "less"]
    /\ rhs = [container |-> <<>>, compare |-> "less"]
    /\ lhs0 = lhs /\ rhs0 = rhs /\ nSwap = 0

NoRun == [op |-> "none", index |-> 0, before |-> <<>>, runs |-> <<>>, acc |-> {},
          ub |-> {}, calls |-> <<>>]

BufferIdle == buf = <<>> /\ cur = <<>> /\ last = NoRun /\ nHeapify = 0

Init ==
    /\ variant \in Variants
    /\ constructed = "none"
    /\ container = <<>>
    /\ compare = "less"
    /\ ret = NoRet
    /\ nPush = 0 /\ nPop = 0
    /\ ub = {}
    /\ log = NoLog /\ bag = BagOf(<<>>) /\ heapified = FALSE
    /\ DriverIdle /\ SwapIdle /\ BufferIdle

Usable == constructed # "none" /\ "corrupt" \notin ub

\* priority_queue(const Compare& c = Compare())
ConstructDefault ==
    /\ constructed = "none"
    /\ \E c \in Compares :
           /\ constructed' = "default"
           /\ compare' = c
           /\ container' = <<>>
    /\ ret' = [NoRet EXCEPT !.op = "construct"]
    /\ log' = NoLog
    /\ UNCHANGED <<variant, nPush, nPop, ub, bag, heapified>>
    /\ UNCHANGED <<driverVars, swapVars, bufferVars>>

\* priority_queue(const Compare& c, Container& rhs), and the Container&& one:
\* src is the container adopted, g what lies before its buffer
ConstructAdopt ==
    /\ constructed = "none"
    /\ \E c \in Compares, src \in SeqsUpTo(Values, MaxSize), g \in Garbage :
           /\ constructed' = "adopt"
           /\ compare' = c
           /\ IF variant = "working"
              THEN /\ container' = heapify(src, c)
                   /\ ub' = ub
                   /\ log' = [runs |-> heapifyRun(src, c).runs, acc |-> heapifyRun(src, c).acc]
                   /\ bag' = BagOf(src)
              ELSE LET d == heapify_h(src, g)
                   IN  /\ container' = d.container
                       /\ ub' = ub \cup d.ub
                       /\ log' = NoLog
                       /\ bag' = bag
    /\ ret' = [NoRet EXCEPT !.op = "construct"]
    /\ UNCHANGED <<variant, nPush, nPop, heapified>>
    /\ UNCHANGED <<driverVars, swapVars, bufferVars>>

Push(t) ==
    /\ Usable
    /\ nPush < MaxOps
    /\ Len(container) < MaxSize
    /\ container' = IF variant = "working" THEN push(container, compare, t)
                    ELSE push_h(container, t)
    /\ nPush' = nPush + 1
    /\ ret' = [op |-> "push", err |-> "none", val |-> t]
    /\ IF variant = "working"
       THEN /\ log' = [runs |-> pushRun(container, compare, t).runs,
                       acc  |-> pushRun(container, compare, t).acc]
            /\ bag' = [bag EXCEPT ![t] = @ + 1]
       ELSE /\ log' = NoLog
            /\ bag' = bag
    /\ UNCHANGED <<variant, constructed, compare, nPop, ub, heapified>>
    /\ UNCHANGED <<driverVars, swapVars, bufferVars>>

\* pop.  The named variant's pop does nothing at all.
Pop ==
    /\ Usable
    /\ nPop < MaxOps
    /\ LET d == IF variant = "working" THEN pop(container, compare)
                ELSE [container |-> pop_h(container), ub |-> {}, runs |-> <<>>, acc |-> {}]
       IN  /\ container' = d.container
           /\ ub' = ub \cup d.ub
           /\ log' = [runs |-> d.runs, acc |-> d.acc]
    /\ bag' = IF variant = "working" /\ ~empty(container)
              THEN [bag EXCEPT ![container[1]] = @ - 1]
              ELSE bag
    /\ nPop' = nPop + 1
    /\ ret' = [op |-> "pop", err |-> "none", val |-> 0]
    /\ UNCHANGED <<variant, constructed, compare, nPush, heapified>>
    /\ UNCHANGED <<driverVars, swapVars, bufferVars>>

\* the other outcome of an undefined pop_back: the container's bookkeeping is
\* corrupted (its size wraps round), and nothing can be said of the queue after
PopCorrupts ==
    /\ Usable
    /\ nPop < MaxOps
    /\ variant = "working"
    /\ pop(container, compare).ub # {}
    /\ container' = container
    /\ ub' = ub \cup pop(container, compare).ub \cup {"corrupt"}
    /\ nPop' = nPop + 1
    /\ ret' = [op |-> "pop", err |-> "none", val |-> 0]
    /\ log' = NoLog
    /\ UNCHANGED <<variant, constructed, compare, nPush, bag, heapified>>
    /\ UNCHANGED <<driverVars, swapVars, bufferVars>>

Top ==
    /\ Usable
    /\ LET t == IF variant = "working" THEN top(container) ELSE top_h(container)
       IN  ret' = [op |-> "top", err |-> t.err, val |-> t.val]
    /\ log' = NoLog
    /\ UNCHANGED <<variant, constructed, container, compare, nPush, nPop, ub, bag, heapified>>
    /\ UNCHANGED <<driverVars, swapVars, bufferVars>>

\* heapify, called on the queue as it stands (it is private: the unit test
\* class, a friend, calls it); g is what lies before the buffer
Heapify ==
    /\ Usable
    /\ IF variant = "working"
       THEN LET d == heapifyRun(container, compare)
            IN  /\ container' = d.container
                /\ ub' = ub
                /\ log' = [runs |-> d.runs, acc |-> d.acc]
       ELSE \E g \in Garbage :
                LET d == heapify_h(container, g)
                IN  /\ container' = d.container
                    /\ ub' = ub \cup d.ub
                    /\ log' = NoLog
    /\ heapified' = TRUE
    /\ ret' = [op |-> "heapify", err |-> "none", val |-> 0]
    /\ UNCHANGED <<variant, constructed, compare, nPush, nPop, bag>>
    /\ UNCHANGED <<driverVars, swapVars, bufferVars>>

Next ==
    \/ ConstructDefault
    \/ ConstructAdopt
    \/ \E t \in Values : Push(t)
    \/ Pop
    \/ PopCorrupts
    \/ Top
    \/ Heapify

Spec == Init /\ [][Next]_vars

(***************************************************************************)
(* Properties of the queue under a caller (Spec).                          *)
(***************************************************************************)
\* no child outranks its parent
HeapInvariant(c, cmp) ==
    \A i \in 1 .. Len(c) : \A ch \in {2 * i, 2 * i + 1} :
        ch <= Len(c) => ~Compare(cmp, c[i], c[ch])

\* a working-variant queue that started empty and has only been pushed to,
\* popped while non-empty, and peeked
PushPopOnly ==
    /\ variant = "working"
    /\ constructed = "default"
    /\ ~heapified
    /\ ub = {}

\* C1: in the working variant, from an empty queue and after any pushes and
\* pops (pop only when non-empty) under the less-than comparator, no child
\* outranks its parent.
C1_HeapInvariantAfterPushPop ==
    (PushPopOnly /\ compare = "less") => HeapInvariant(container, compare)

\* C2: in the working variant, after any pushes and pops that leave the queue
\* non-empty, top() returns an element that no stored element outranks.
C2_TopIsHighest ==
    (PushPopOnly /\ ~empty(container)) =>
        /\ top(container).err = "none"
        /\ \A k \in 1 .. Len(container) :
               ~Compare(compare, top(container).val, container[k])

\* C3: in the working variant, after n pushes and k pops, none on an empty
\* queue, size() is n - k, and empty() holds exactly when n = k.
C3_SizeAccounting ==
    PushPopOnly =>
        /\ size(container) = nPush - nPop
        /\ empty(container) <=> (nPush = nPop)

C3_Witness ==
    /\ PushPopOnly
    /\ nPush = 3 /\ nPop = 2
    /\ ret.op = "pop"

\* what a step that calls top() does
C5_TopStep ==
    (Usable /\ ret'.op = "top") =>
        /\ container' = container
        /\ ub' = ub
        /\ IF Len(container) = 0
           THEN ret'.err = "out_of_range"
           ELSE ret'.err = "none" /\ ret'.val = container[1]

\* C5: in both variants, top() on an empty queue signals out_of_range and
\* returns no element; on a non-empty queue it returns the element at offset
\* 0; either way the storage and its size are as they were.
C5_TopContract == [][C5_TopStep]_vars

C5_Witness ==
    /\ variant = "named"
    /\ ret.op = "top" /\ ret.err = "out_of_range"
    /\ container = <<>>

\* what a step that calls pop() on an empty working-variant queue does
C8_PopEmptyStep ==
    (variant = "working" /\ Usable /\ empty(container) /\ nPop' = nPop + 1) =>
        \/ ret'.err = "out_of_range"
        \/ container' = container /\ "pop_back_empty" \notin ub'

\* C8: in the working variant, pop() on an empty queue either does nothing
\* (size stays 0, storage unchanged, no remove-last issued against the empty
\* storage) or signals the empty-container error.
C8_PopEmptySafe == [][C8_PopEmptyStep]_vars

\* what a step that calls the named variant's push does
C9_NamedPushStep ==
    (variant = "named" /\ nPush' = nPush + 1) =>
        /\ size(container') = size(container) + 1
        /\ \E k \in 1 .. Len(container') : container'[k] = ret'.val

\* C9: in the named variant, push(t) makes size() one more and t is among
\* the stored elements afterwards.
C9_NamedPushAppends == [][C9_NamedPushStep]_vars

\* the working variant, no undefined operation made so far
WorkingDefined == variant = "working" /\ ub = {}

\* the heap index each percolateDown call of the last operation was made with
TopIndex(k) == log.runs[k][1].indexHeap

\* C13: in the working variant, push passes new_size / 2 (the parent of the
\* new leaf) to its first percolateDown, for every new_size >= 2, and halves
\* the index from one call to the next.
C13_PushStartsAtParent ==
    (WorkingDefined /\ ret.op = "push" /\ size(container) >= 2) =>
        /\ Len(log.runs) >= 1
        /\ TopIndex(1) = size(container) \div 2
        /\ \A k \in 2 .. Len(log.runs) : TopIndex(k) = TopIndex(k - 1) \div 2

\* what a step that calls pop() on a non-empty working-variant heap does
C14_PopStep ==
    (/\ WorkingDefined /\ Usable
     /\ ~empty(container)
     /\ HeapInvariant(container, compare)
     /\ nPop' = nPop + 1) =>
        /\ BagOf(container') = [BagOf(container) EXCEPT ![top(container).val] = @ - 1]
        /\ size(container') = size(container) - 1
        /\ HeapInvariant(container', compare)

\* C14: in the working variant, pop() on a non-empty queue that is a heap
\* removes one occurrence of the element top() returned, keeps every other
\* element, and leaves a heap.
C14_PopRemovesRoot == [][C14_PopStep]_vars

C14_Witness ==
    /\ WorkingDefined
    /\ ret.op = "pop"
    /\ size(container) >= 3
    /\ Len(log.runs[1]) >= 2

\* C16: in the working variant, after any pushes, pops on a non-empty queue
\* and heapify calls from an empty queue, the storage holds exactly what was
\* pushed less the front element removed at each pop.
C16_MultisetAccounting ==
    (WorkingDefined /\ constructed = "default") => BagOf(container) = bag

C16_Witness ==
    /\ WorkingDefined /\ constructed = "default"
    /\ heapified
    /\ nPush >= 3 /\ nPop >= 1
    /\ ret.op = "pop"
    /\ size(container) >= 2

\* C19: in the working variant, every indexed read, write or swap that push,
\* pop on a non-empty queue, heapify and percolateDown make is at an offset
\* in [0, size), size being the size at the time of the access.
C19_AccessesInRange ==
    WorkingDefined => \A a \in log.acc : 0 <= a.off /\ a.off < a.size

C19_Witness ==
    /\ WorkingDefined
    /\ ret.op = "heapify"
    /\ size(container) = 2
    /\ log.acc # {}

RECURSIVE Log2Floor(_)
Log2Floor(n) == IF n <= 1 THEN 0 ELSE 1 + Log2Floor(n \div 2)

\* the swaps of one percolateDown call, its recursive calls included
Swaps(run) == Cardinality({k \in 1 .. Len(run) : run[k].swapped})

\* C20: in the working variant every push, pop on a non-empty queue and
\* heapify ends: each recursive percolateDown call has a larger heap index
\* than its caller and a call swaps at most floor(log2(size)) times; push's
\* loop index strictly decreases and the loop ends at index 0 or when
\* percolateDown returns false; heapify's loop runs size/2 + 1 times.
C20_BoundedWork ==
    WorkingDefined =>
        /\ \A k \in 1 .. Len(log.runs) :
               LET run == log.runs[k]
               IN  /\ \A j \in 2 .. Len(run) : run[j].indexHeap > run[j - 1].indexHeap
                   /\ \A j \in 1 .. Len(run) : run[j].swapped <=> j < Len(run)
                   /\ Swaps(run) <= Log2Floor(Len(run[1].c))
        /\ ret.op = "push" =>
               /\ \A k \in 2 .. Len(log.runs) :
                      /\ TopIndex(k) < TopIndex(k - 1)
                      /\ log.runs[k - 1][1].swapped
               /\ Len(log.runs) >= 1
               /\ \/ ~log.runs[Len(log.runs)][1].swapped
                  \/ TopIndex(Len(log.runs)) \div 2 = 0
        /\ (ret.op = "heapify" \/ (ret.op = "construct" /\ constructed = "adopt")) =>
               Len(log.runs) = size(container) \div 2 + 1

C20_Witness ==
    /\ WorkingDefined
    /\ ret.op = "push"
    /\ Len(log.runs) >= 2
    /\ \E k \in 1 .. Len(log.runs) : Len(log.runs[k]) >= 2

(***************************************************************************)
(* A caller that loads and drains working-variant queues: it pushes the    *)
(* elements of input one by one onto p, builds r from the same range,      *)
(* builds h by adopting input as a container, then empties p and r with    *)
(*     while (!q.empty()) { out.push_back(q.top()); q.pop(); }             *)
(***************************************************************************)
Inputs == SeqsUpTo(Values, MaxLen) \cup {<<5, 1, 9, 3, 7>>, <<1, 4, 2, 8, 5>>}

QueueIdle ==
    /\ variant = "working" /\ constructed = "none" /\ container = <<>>
    /\ ret = NoRet /\ nPush = 0 /\ nPop = 0 /\ ub = {}
    /\ log = NoLog /\ bag = BagOf(<<>>) /\ heapified = FALSE

DriverInit ==
    /\ input \in Inputs
    /\ compare \in Compares
    /\ p = <<>> /\ r = <<>> /\ h = <<>>
    /\ outP = <<>> /\ outR = <<>>
    /\ pc = "push"
    /\ QueueIdle /\ SwapIdle /\ BufferIdle

\* p.push(input[k]) for the next k
DPush ==
    /\ pc = "push"
    /\ size(p) < Len(input)
    /\ p' = push(p, compare, input[size(p) + 1])
    /\ UNCHANGED <<input, r, h, outP, outR, pc>>
    /\ UNCHANGED <<queueVars, swapVars, bufferVars>>

DPushed ==
    /\ pc = "push"
    /\ size(p) >= Len(input)
    /\ pc' = "range"
    /\ UNCHANGED <<input, p, r, h, outP, outR>>
    /\ UNCHANGED <<queueVars, swapVars, bufferVars>>

\* priority_queue r(input.begin(), input.end(), compare)
DRange ==
    /\ pc = "range"
    /\ r' = constructRange(input, compare)
    /\ pc' = "adopt"
    /\ UNCHANGED <<input, p, h, outP, outR>>
    /\ UNCHANGED <<queueVars, swapVars, bufferVars>>

\* priority_queue h(compare, input)
DAdopt ==
    /\ pc = "adopt"
    /\ h' = heapify(input, compare)
    /\ pc' = "drainP"
    /\ UNCHANGED <<input, p, r, outP, outR>>
    /\ UNCHANGED <<queueVars, swapVars, bufferVars>>

DDrainP ==
    /\ pc = "drainP"
    /\ IF ~empty(p)
       THEN /\ outP' = Append(outP, top(p).val)
            /\ p' = pop(p, compare).container
            /\ pc' = pc
       ELSE /\ pc' = "drainR"
            /\ UNCHANGED <<p, outP>>
    /\ UNCHANGED <<input, r, h, outR>>
    /\ UNCHANGED <<queueVars, swapVars, bufferVars>>

DDrainR ==
    /\ pc = "drainR"
    /\ IF ~empty(r)
       THEN /\ outR' = Append(outR, top(r).val)
            /\ r' = pop(r, compare).container
            /\ pc' = pc
       ELSE /\ pc' = "done"
            /\ UNCHANGED <<r, outR>>
    /\ UNCHANGED <<input, p, h, outP>>
    /\ UNCHANGED <<queueVars, swapVars, bufferVars>>

DriverNext == DPush \/ DPushed \/ DRange \/ DAdopt \/ DDrainP \/ DDrainR

SpecDriver == DriverInit /\ [][DriverNext]_vars

(***************************************************************************)
(* Properties of the loaded and drained queues (SpecDriver).               *)
(***************************************************************************)
SameElements(s, t) ==
    /\ Len(s) = Len(t)
    /\ \A k \in 1 .. Len(s) : Occurrences(s, s[k]) = Occurrences(t, s[k])

\* C4: pushing 5, 1, 9, 3, 7 under the less-than comparator and then reading
\* top() and calling pop() until empty extracts 9, 7, 5, 3, 1.
C4_ExtractionOrder ==
    (input = <<5, 1, 9, 3, 7>> /\ compare = "less" /\ pc \in {"drainR", "done"}) =>
        outP = <<9, 7, 5, 3, 1>>

C4_Witness ==
    /\ input = <<5, 1, 9, 3, 7>> /\ compare = "less"
    /\ pc = "drainR" /\ Len(outP) = 5 /\ p = <<>>

\* C6: a queue built from the range s and drained gives the same sequence as
\* an empty queue onto which the elements of s are pushed in order, drained.
C6_RangeEqualsPushes ==
    pc = "done" => outR = outP

\* C12: in the working variant under the less-than comparator, pushing any
\* finite sequence onto an empty queue and then reading top() and calling
\* pop() until empty yields the pushed elements in non-increasing order.
C12_DrainNonIncreasing ==
    (compare = "less" /\ pc \in {"drainR", "done"}) =>
        /\ SameElements(outP, input)
        /\ \A k \in 1 .. Len(outP) - 1 : outP[k] >= outP[k + 1]

\* C7: adopting a sequence of any length in any order and running heapify
\* leaves the buffer a heap that holds the same multiset as the sequence.
C7_AdoptHeapifies ==
    pc \in {"drainP", "drainR", "done"} =>
        /\ HeapInvariant(h, compare)
        /\ SameElements(h, input)

C7_Witness ==
    /\ pc = "drainP"
    /\ Len(input) >= 4
    /\ ~HeapInvariant(input, compare)
    /\ h # input

(***************************************************************************)
(* swap(lhs, rhs), the free function, on two queues built by the adopting  *)
(* constructor.  A queue is its container and its comparator.              *)
(***************************************************************************)
\* swap that exchanges the containers and leaves the comparators
swap_containersOnly(l, x) ==
    [lhs |-> [container |-> x.container, compare |-> l.compare],
     rhs |-> [container |-> l.container, compare |-> x.compare]]

\* working variant: swap(lhs.container, rhs.container); swap(lhs.compare, rhs.compare);
swap(l, x) ==
    [lhs |-> [container |-> x.container, compare |-> x.compare],
     rhs |-> [container |-> l.container, compare |-> l.compare]]

\* named variant: the same two exchanges, through std::swap
swap_h(l, x) ==
    [lhs |-> [container |-> x.container, compare |-> x.compare],
     rhs |-> [container |-> l.container, compare |-> l.compare]]

\* the queues the adopting constructor makes of the sequences up to MaxSwapLen
Adopted(v) ==
    {[container |-> IF v = "working" THEN heapify(s, c) ELSE heapify_h(s, g).container,
      compare   |-> c] : s \in SeqsUpTo(Values, MaxSwapLen), c \in Compares, g \in Garbage}

SwapInit ==
    /\ variant \in Variants
    /\ lhs \in Adopted(variant)
    /\ rhs \in Adopted(variant)
    /\ lhs0 = lhs /\ rhs0 = rhs
    /\ nSwap = 0
    /\ constructed = "none" /\ container = <<>> /\ compare = "less"
    /\ ret = NoRet /\ nPush = 0 /\ nPop = 0 /\ ub = {}
    /\ log = NoLog /\ bag = BagOf(<<>>) /\ heapified = FALSE
    /\ DriverIdle /\ BufferIdle

Swap ==
    /\ nSwap < MaxSwaps
    /\ LET d == IF variant = "working" THEN swap(lhs, rhs) ELSE swap_h(lhs, rhs)
       IN  /\ lhs' = d.lhs
           /\ rhs' = d.rhs
    /\ nSwap' = nSwap + 1
    /\ UNCHANGED <<lhs0, rhs0>>
    /\ UNCHANGED <<queueVars, driverVars, bufferVars>>

SwapNext == Swap

SpecSwap == SwapInit /\ [][SwapNext]_vars

\* C10: one swap(a, b) leaves a with b's former storage and comparator and b
\* with a's; a second swap(a, b) restores both queues, element for element.
C10_SwapRoundTrip ==
    /\ nSwap % 2 = 1 => (lhs = rhs0 /\ rhs = lhs0)
    /\ nSwap % 2 = 0 => (lhs = lhs0 /\ rhs = rhs0)

C10_Witness ==
    /\ nSwap = 2
    /\ lhs0.container # rhs0.container
    /\ lhs0.compare # rhs0.compare
    /\ Len(lhs0.container) = 2

(***************************************************************************)
(* The private members called on a buffer as it stands, as the unit test   *)
(* class (a friend) does: buf is the container it sets, in any order, cur  *)
(* the container now, last the record of the last call.  percolateDown is  *)
(* called once, on the buffer as set; heapify up to MaxHeapify times.      *)
(***************************************************************************)
BufferInit ==
    /\ variant \in Variants
    /\ compare \in Compares
    /\ buf \in SeqsUpTo(Values, MaxSize)
    /\ cur = buf
    /\ last = NoRun
    /\ nHeapify = 0
    /\ constructed = "none" /\ container = <<>>
    /\ ret = NoRet /\ nPush = 0 /\ nPop = 0 /\ ub = {}
    /\ log = NoLog /\ bag = BagOf(<<>>) /\ heapified = FALSE
    /\ DriverIdle /\ SwapIdle

\* percolateDown(i), 1 <= i <= size(); g is what lies before the buffer
BPercolateDown ==
    /\ last.op = "none"
    /\ \E i \in 1 .. size(cur) :
           IF variant = "working"
           THEN LET d == percolateDown(cur, compare, i)
                IN  /\ cur' = d.container
                    /\ last' = [op |-> "percolateDown", index |-> i, before |-> cur,
                                runs |-> <<d.trace>>, acc |-> d.acc, ub |-> {},
                                calls |-> <<i>>]
           ELSE \E g \in Garbage :
                    LET d == percolateDown_h(cur, i, g)
                    IN  /\ cur' = d.container
                        /\ last' = [op |-> "percolateDown", index |-> i, before |-> cur,
                                    runs |-> <<>>, acc |-> {}, ub |-> d.ub,
                                    calls |-> <<i>>]
    /\ UNCHANGED <<buf, nHeapify>>
    /\ UNCHANGED <<queueVars, driverVars, swapVars>>

\* heapify()
BHeapify ==
    /\ last.op \in {"none", "heapify"}
    /\ nHeapify < MaxHeapify
    /\ IF variant = "working"
       THEN LET d == heapifyRun(cur, compare)
            IN  /\ cur' = d.container
                /\ last' = [op |-> "heapify", index |-> 0, before |-> cur,
                            runs |-> d.runs, acc |-> d.acc, ub |-> {},
                            calls |-> [k \in 1 .. Len(d.runs) |-> d.runs[k][1].indexHeap]]
       ELSE \E g \in Garbage :
                LET d == heapify_h(cur, g)
                IN  /\ cur' = d.container
                    /\ last' = [op |-> "heapify", index |-> 0, before |-> cur,
                                runs |-> <<>>, acc |-> {}, ub |-> d.ub,
                                calls |-> d.calls]
    /\ nHeapify' = nHeapify + 1
    /\ UNCHANGED buf
    /\ UNCHANGED <<queueVars, driverVars, swapVars>>

BufferNext == BPercolateDown \/ BHeapify

SpecBuffer == BufferInit /\ [][BufferNext]_vars

(***************************************************************************)
(* Properties of the private members (SpecBuffer).                         *)
(***************************************************************************)
\* heap index k lies in the subtree rooted at heap index i
RECURSIVE InSubtree(_, _)
InSubtree(k, i) == k = i \/ (k > i /\ InSubtree(k \div 2, i))

\* no child outranks its parent within the subtree rooted at i
SubtreeHeap(c, cmp, i) ==
    \A k \in 1 .. Len(c) : InSubtree(k, i) =>
        \A ch \in {2 * k, 2 * k + 1} : ch <= Len(c) => ~Compare(cmp, c[k], c[ch])

ChildrenHeaps(c, cmp, i) ==
    SubtreeHeap(c, cmp, 2 * i) /\ SubtreeHeap(c, cmp, 2 * i + 1)

\* C11: in the working variant, heapify called twice in a row leaves the
\* storage in the order the first call left it: the second call swaps nothing.
C11_HeapifyIdempotent ==
    (variant = "working" /\ last.op = "heapify" /\ nHeapify >= 2) =>
        /\ cur = last.before
        /\ \A k \in 1 .. Len(last.runs) : Swaps(last.runs[k]) = 0

C11_Witness ==
    /\ variant = "working"
    /\ last.op = "heapify" /\ nHeapify = 2
    /\ size(buf) >= 4
    /\ ~HeapInvariant(buf, compare)
    /\ cur # buf

\* C15: in the working variant, percolateDown(i) on a buffer whose subtrees
\* at 2i and 2i+1 are heaps leaves the subtree at i a heap; it selects the
\* right child only when compare(left, right) holds, swaps only when the
\* selected child outranks the node, and changes no slot outside the subtree.
C15_PercolateDownRestores ==
    (/\ variant = "working"
     /\ last.op = "percolateDown"
     /\ ChildrenHeaps(buf, compare, last.index)) =>
        /\ SubtreeHeap(cur, compare, last.index)
        /\ \A j \in 1 .. Len(last.runs[1]) :
               LET e == last.runs[1][j]
               IN  /\ e.indexBigger = 2 * e.indexHeap + 1 =>
                          /\ e.indexBigger <= Len(e.c)
                          /\ Compare(compare, e.c[2 * e.indexHeap], e.c[e.indexBigger])
                   /\ e.swapped =>
                          /\ e.indexBigger <= Len(e.c)
                          /\ Compare(compare, e.c[e.indexHeap], e.c[e.indexBigger])
        /\ Len(cur) = Len(buf)
        /\ \A k \in 1 .. Len(buf) : ~InSubtree(k, last.index) => cur[k] = buf[k]
        /\ BagOf(cur) = BagOf(buf)

C15_Witness ==
    /\ variant = "working"
    /\ last.op = "percolateDown"
    /\ last.index = 1
    /\ ChildrenHeaps(buf, compare, last.index)
    /\ Len(last.runs[1]) >= 2
    /\ last.runs[1][1].indexBigger = 3
    /\ last.runs[1][1].swapped

\* C17: in the named variant, percolateDown(i) on a buffer whose child
\* subtrees are heaps leaves the subtree at i a heap, also when node i has a
\* left child and no right child.
C17_NamedPercolateDownRestores ==
    (/\ variant = "named"
     /\ compare = "less"
     /\ last.op = "percolateDown"
     /\ ChildrenHeaps(buf, compare, last.index)) =>
        SubtreeHeap(cur, compare, last.index)

\* C18: in the named variant, heapify on a buffer of any size n calls
\* percolateDown only with heap indices 1 .. n, and reads or writes no
\* element at an offset outside [0, n).
C18_NamedHeapifyInRange ==
    (variant = "named" /\ last.op = "heapify") =>
        /\ \A k \in 1 .. Len(last.calls) :
               1 <= last.calls[k] /\ last.calls[k] <= size(last.before)
        /\ last.ub = {}

=============================================================================
